---- MODULE Spec2Model ----
(***************************************************************************)
(* A model of gormpool.Pool (src/gormpool/pool.go): a database connection  *)
(* pool with an idle and a busy connection set, a buffered channel used as *)
(* a semaphore, one mutex, and a cancellation context.                     *)
(*                                                                         *)
(* Each goroutine that calls into the pool is a process with a program     *)
(* counter.  A step of the model starts when a blocking operation of the   *)
(* goroutine completes (mu.Lock, a channel send or receive, the select of  *)
(* the wait path, connector.Open) and runs the code up to the next one.    *)
(* Every p.mu.Unlock() is the start of a step too, and p.get() is taken in *)
(* three steps: a sync.Mutex is not bound to the goroutine that locked it, *)
(* and the wait path of Get unlocks the mutex without having locked it, so *)
(* a second goroutine can be inside a critical section that another one    *)
(* has not left.                                                           *)
(* Timestamps and the accumulated wait duration are not modelled.  A Go    *)
(* panic or a runtime fatal error ends the program: it is recorded in      *)
(* `fatal` and no further step is taken.                                   *)
(***************************************************************************)
EXTENDS Integers, Sequences, FiniteSets

\* ---------------------------------------------------------------- bounds
\* number of goroutines calling Get / Put / Close
NCallers == 3
\* largest Options.Capacity tried
MaxCap == 2
\* number of Get calls the first caller makes
MaxGets == 3
\* number of Get calls each other caller makes
MaxGetsRest == 1
\* no handle is closed more often than this by Close
MaxCloseCalls == 2

\* ------------------------------------------------------------- processes
\* the goroutine started by NewPool
Watcher == 0
\* the mutex is not locked
Free == -1

Callers == 1..NCallers
Procs == Callers \cup {Watcher}
\* the goroutines that call Close: the watcher and the last caller
Closers == {Watcher, NCallers}

\* connection keys in order of creation; NoConn is the nil *Conn
NoConn == 0
\* the "" entries that make([]string, n) puts into a key slice
EmptyKey == -2
\* number of Get calls caller c makes
GetLimit(c) == IF c = 1 THEN MaxGets ELSE MaxGetsRest
Keys == 1..(MaxCap + MaxGets + (NCallers - 1) * MaxGetsRest)

VARIABLES
    opts,              \* the Options given to NewPool
    pool,              \* "new" before NewPool, then "ready" or "failed"
    newErr,            \* the error NewPool returned, "nil" if none
    ctxDone,           \* p.ctx.Done() is closed
    closed,            \* p.closed
    mu,                \* p.mu: Free, or the process whose Lock succeeded last
    ch,                \* number of elements buffered in p.ch
    idleConn,          \* p.idleConn: [keys, conns, size]
    busyConn,          \* p.busyConn: [keys, conns, size]
    currentWaitCount,  \* p.currentWaitCount
    totalWaitCount,    \* p.totalWaitCount
    droppedGetCount,   \* p.droppedGetCount
    nconns,            \* number of Conn values created so far
    usage,             \* Conn.UsageCounter, by key
    closeCalls,        \* number of DB.Close calls on the handle, by key
    pc,                \* position of each process
    key,               \* the key local of a running conns.get
    cur,               \* the conn local of a running Get or Put
    held,              \* connections a caller got from Get and has not Put
    last,              \* the error of the last Get that returned
    startClosed,       \* the Get in progress started with ctx done or p.closed
    gets,              \* number of Get calls each caller has started
    fatal              \* "none", or the panic / fatal error that ended the program

poolVars == <<closed, mu, ch, idleConn, busyConn, currentWaitCount,
              totalWaitCount, droppedGetCount, nconns, usage, closeCalls>>
procVars == <<pc, key, cur, held, last, startClosed, gets>>
vars == <<opts, pool, newErr, ctxDone, poolVars, procVars, fatal>>

\* ------------------------------------------------------------ validation
\* Options.validate as it would be with the Capacity check ahead of the Args
\* check
validateCapacityFirst(o) ==
    IF ~o.typeKnown THEN "ErrSQLType"
    ELSE IF o.capacity = 0 THEN "ErrCapacity"
    ELSE IF ~o.argsPresent THEN "ErrEmptyArgs"
    ELSE IF o.keepConn > o.capacity THEN "ErrKeepLTCapacity"
    ELSE "nil"

\* Options.validate: the first failing check decides the error
validate(o) ==
    IF ~o.typeKnown THEN "ErrSQLType"
    ELSE IF ~o.argsPresent THEN "ErrEmptyArgs"
    ELSE IF o.capacity = 0 THEN "ErrCapacity"
    ELSE IF o.keepConn > o.capacity THEN "ErrKeepLTCapacity"
    ELSE "nil"

\* ------------------------------------------------------------ conns type
newConns == [keys |-> <<>>, conns |-> {}, size |-> 0]

\* conns.put as it would be if the key went to the front of the slice
connsPutFront(cs, k) ==
    [keys |-> <<k>> \o cs.keys, conns |-> cs.conns \cup {k}, size |-> cs.size + 1]

\* conns.put
connsPut(cs, k) ==
    [keys |-> Append(cs.keys, k), conns |-> cs.conns \cup {k}, size |-> cs.size + 1]

\* conns.get, `key := cs.keys[0]`: an empty slice is an index panic
connsGetKey(cs) ==
    IF Len(cs.keys) = 0
    THEN [key |-> EmptyKey, panic |-> "index"]
    ELSE [key |-> Head(cs.keys), panic |-> "none"]

\* conns.get, `cs.keys = cs.keys[1:]` and `conn = cs.conns[key]`: slicing an
\* empty slice from 1 is a panic; conn is nil (NoConn) when the map holds no
\* Conn under the key
connsGetConn(cs, k) ==
    IF Len(cs.keys) = 0
    THEN [cs |-> cs, conn |-> NoConn, panic |-> "slice"]
    ELSE [cs |-> [cs EXCEPT !.keys = Tail(@)],
          conn |-> IF k \in cs.conns THEN k ELSE NoConn,
          panic |-> "none"]

\* conns.get, the rest, with u the usage counters: the map entry of the key
\* is deleted and size decremented, then the usage counter of conn is
\* incremented, a nil dereference when conn is nil
connsGetRest(cs, k, conn, u) ==
    LET rest == [cs EXCEPT !.conns = @ \ {k}, !.size = @ - 1]
    IN  IF conn = NoConn
        THEN [cs |-> rest, usage |-> u, panic |-> "nil"]
        ELSE [cs |-> rest, usage |-> [u EXCEPT ![conn] = @ + 1],
              panic |-> "none"]

\* conns.get run from its first statement to its last
connsGet(cs, u) ==
    LET a == connsGetKey(cs) IN
    IF a.panic # "none"
    THEN [cs |-> cs, conn |-> NoConn, usage |-> u, panic |-> a.panic]
    ELSE LET b == connsGetConn(cs, a.key) IN
         IF b.panic # "none"
         THEN [cs |-> b.cs, conn |-> NoConn, usage |-> u, panic |-> b.panic]
         ELSE LET c == connsGetRest(b.cs, a.key, b.conn, u)
              IN  [cs |-> c.cs, conn |-> b.conn, usage |-> c.usage,
                   panic |-> c.panic]

\* conns.deleteByKey as it would be without the decrement of size
connsDeleteByKeyKeepsSize(cs, k) ==
    IF cs.size = 0
    THEN [cs |-> cs, panic |-> "makeslice"]
    ELSE IF \E i \in 1..Len(cs.keys) : cs.keys[i] = k /\ k \notin cs.conns
    THEN [cs |-> cs, panic |-> "nil"]
    ELSE [cs |-> [keys |-> [i \in 1..(cs.size - 1) |-> EmptyKey]
                             \o SelectSeq(cs.keys, LAMBDA v : v # k),
                  conns |-> cs.conns \ {k},
                  size |-> cs.size],
          panic |-> "none"]

\* conns.deleteByKey: the new slice starts as size-1 empty strings and the
\* kept keys are appended to it
connsDeleteByKey(cs, k) ==
    IF cs.size = 0
    THEN [cs |-> cs, panic |-> "makeslice"]
    ELSE IF \E i \in 1..Len(cs.keys) : cs.keys[i] = k /\ k \notin cs.conns
    THEN [cs |-> cs, panic |-> "nil"]
    ELSE [cs |-> [keys |-> [i \in 1..(cs.size - 1) |-> EmptyKey]
                             \o SelectSeq(cs.keys, LAMBDA v : v # k),
                  conns |-> cs.conns \ {k},
                  size |-> cs.size - 1],
          panic |-> "none"]

\* conns.close: every Conn of the map is closed and the map entries of the
\* keys are deleted; keys and size stay as they are
connsClose(cs) ==
    [keys |-> cs.keys,
     conns |-> cs.conns \ {cs.keys[i] : i \in 1..Len(cs.keys)},
     size |-> cs.size]

\* Pool.get: idleConn.get then busyConn.put
poolGet(idle, busy, u) ==
    LET g == connsGet(idle, u)
    IN  [idle |-> g.cs,
         busy |-> IF g.panic = "none" THEN connsPut(busy, g.conn) ELSE busy,
         conn |-> g.conn,
         usage |-> g.usage,
         panic |-> g.panic]

\* the part of initConn after connector.Open (the new Conn k goes into the
\* idle set) followed by p.get(), as on the open path of Get
openGet(idle, busy, u, k) == poolGet(connsPut(idle, k), busy, u)

\* the bookkeeping of Put for connection c, given the KeepConn option and
\* the closed flag: deleteByKey on the busy set, then idleConn.put if the
\* idle set is below KeepConn and the pool is open (kept), else the handle
\* is closed
putConn(idle, busy, c, keepConn, isClosed) ==
    LET d == connsDeleteByKey(busy, c) IN
    IF d.panic # "none"
    THEN [idle |-> idle, busy |-> busy, kept |-> FALSE, panic |-> d.panic]
    ELSE IF idle.size < keepConn /\ ~isClosed
    THEN [idle |-> connsPut(idle, c), busy |-> d.cs, kept |-> TRUE,
          panic |-> "none"]
    ELSE [idle |-> idle, busy |-> d.cs, kept |-> FALSE, panic |-> "none"]

\* ------------------------------------------------------------------ Init
Init ==
    /\ opts \in [typeKnown : BOOLEAN, argsPresent : BOOLEAN,
                 capacity : 0..MaxCap, keepConn : 0..(MaxCap + 1)]
    /\ pool = "new"
    /\ newErr = "nil"
    /\ ctxDone = FALSE
    /\ closed = FALSE
    /\ mu = Free
    /\ ch = 0
    /\ idleConn = newConns
    /\ busyConn = newConns
    /\ currentWaitCount = 0
    /\ totalWaitCount = 0
    /\ droppedGetCount = 0
    /\ nconns = 0
    /\ usage = [k \in Keys |-> 0]
    /\ closeCalls = [k \in Keys |-> 0]
    /\ pc = [p \in Procs |-> IF p = Watcher THEN "none" ELSE "idle"]
    /\ key = [c \in Callers |-> EmptyKey]
    /\ cur = [c \in Callers |-> NoConn]
    /\ held = [c \in Callers |-> {}]
    /\ last = "none"
    /\ startClosed = [c \in Callers |-> FALSE]
    /\ gets = [c \in Callers |-> 0]
    /\ fatal = "none"

Running == pool = "ready" /\ fatal = "none"

\* --------------------------------------------------------------- helpers
\* a panic or fatal error in process p: the program ends there
Crash(p, why) ==
    /\ fatal' = why
    /\ pc' = [pc EXCEPT ![p] = "crashed"]

\* a caller's Get returns (err, conn) and the caller keeps conn until its Put
Return(self, err, conn) ==
    /\ pc' = [pc EXCEPT ![self] = "idle"]
    /\ last' = err
    /\ held' = [held EXCEPT ![self] = IF conn = NoConn THEN @ ELSE @ \cup {conn}]
    /\ cur' = [cur EXCEPT ![self] = NoConn]
    /\ startClosed' = [startClosed EXCEPT ![self] = FALSE]
    /\ UNCHANGED fatal

\* p.mu.Unlock() by a goroutine that did not lock the mutex in this step,
\* followed by the return of Get: unlocking a mutex that is not locked is a
\* fatal runtime error; a mutex locked by another goroutine is unlocked
UnlockReturn(self, err, conn) ==
    IF mu = Free
    THEN /\ Crash(self, "unlock of unlocked mutex")
         /\ UNCHANGED <<mu, last, held, cur, startClosed>>
    ELSE /\ mu' = Free
         /\ Return(self, err, conn)

\* p.mu.Unlock() at the end of a critical section of process p, which goes
\* on at position next
UnlockTo(p, next) ==
    IF mu = Free
    THEN /\ Crash(p, "unlock of unlocked mutex")
         /\ UNCHANGED mu
    ELSE /\ mu' = Free
         /\ pc' = [pc EXCEPT ![p] = next]
         /\ UNCHANGED fatal

\* ------------------------------------------------------------ environment
\* NewPool: validate, then checkArgs (KeepConn = 0, no watcher goroutine) or
\* KeepConn initConn calls followed by the start of the watcher goroutine
NewPool ==
    /\ pool = "new"
    /\ LET err == validate(opts) IN
       IF err # "nil"
       THEN /\ pool' = "failed" /\ newErr' = err
            /\ UNCHANGED <<ch, idleConn, nconns, pc>>
       ELSE \E openOk \in BOOLEAN :
            IF ~openOk
            THEN /\ pool' = "failed" /\ newErr' = "ErrOpen"
                 /\ UNCHANGED <<ch, idleConn, nconns, pc>>
            ELSE /\ pool' = "ready" /\ newErr' = "nil"
                 /\ ch' = opts.keepConn
                 /\ nconns' = opts.keepConn
                 /\ idleConn' = [keys |-> [i \in 1..opts.keepConn |-> i],
                                 conns |-> 1..opts.keepConn,
                                 size |-> opts.keepConn]
                 /\ pc' = [pc EXCEPT ![Watcher] =
                              IF opts.keepConn = 0 THEN "none" ELSE "watch"]
    /\ UNCHANGED <<key, opts, ctxDone, closed, mu, busyConn, currentWaitCount,
                   totalWaitCount, droppedGetCount, usage, closeCalls,
                   cur, held, last, startClosed, gets, fatal>>

\* the owner of the context cancels it
CtxCancel ==
    /\ fatal = "none"
    /\ pool # "failed"
    /\ ~ctxDone
    /\ ctxDone' = TRUE
    /\ UNCHANGED <<key, opts, pool, newErr, poolVars, procVars, fatal>>

\* the goroutine of NewPool: a select with a default case, so it calls
\* Close only if the context is done at the moment it runs
Watch ==
    /\ Running
    /\ pc[Watcher] = "watch"
    /\ pc' = [pc EXCEPT ![Watcher] = IF ctxDone THEN "close_lock" ELSE "done"]
    /\ UNCHANGED <<key, opts, pool, newErr, ctxDone, poolVars,
                   cur, held, last, startClosed, gets, fatal>>

\* ------------------------------------------------------------------- Get
\* a caller enters Get and the outer select takes its default case: the
\* context is not done
GetStart(self) ==
    /\ Running
    /\ pc[self] = "idle"
    /\ gets[self] < GetLimit(self)
    /\ ~ctxDone
    /\ gets' = [gets EXCEPT ![self] = @ + 1]
    /\ pc' = [pc EXCEPT ![self] = "get_lock"]
    /\ startClosed' = [startClosed EXCEPT ![self] = closed]
    /\ UNCHANGED <<key, opts, pool, newErr, ctxDone, poolVars, cur, held, last,
                   fatal>>

\* a caller enters Get and the outer select takes its ctx.Done() case:
\* Lock and the dropped counter
GetCancel(self) ==
    /\ Running
    /\ pc[self] = "idle"
    /\ gets[self] < GetLimit(self)
    /\ ctxDone
    /\ mu = Free
    /\ mu' = self
    /\ gets' = [gets EXCEPT ![self] = @ + 1]
    /\ droppedGetCount' = droppedGetCount + 1
    /\ pc' = [pc EXCEPT ![self] = "fail_unlock"]
    /\ startClosed' = [startClosed EXCEPT ![self] = TRUE]
    /\ UNCHANGED <<key, opts, pool, newErr, ctxDone, closed, ch, idleConn,
                   busyConn, currentWaitCount, totalWaitCount, nconns, usage,
                   closeCalls, cur, held, last, fatal>>

\* Unlock and the return of ErrGetFromClosedPool, after the ctx.Done() case
\* of the outer select or the closed check
GetFail(self) ==
    /\ Running
    /\ pc[self] = "fail_unlock"
    /\ UnlockReturn(self, "ErrGetFromClosedPool", NoConn)
    /\ UNCHANGED <<key, opts, pool, newErr, ctxDone, closed, ch, idleConn,
                   busyConn, currentWaitCount, totalWaitCount, droppedGetCount,
                   nconns, usage, closeCalls, gets>>

\* the default case of the outer select, from Lock on: the closed check and
\* the dropped counter, the idle path up to the first statement of p.get(),
\* the open path up to connector.Open, or the wait counters of the wait path
GetCS(self) ==
    /\ Running
    /\ pc[self] = "get_lock"
    /\ mu = Free
    /\ mu' = self
    /\ IF closed
       THEN /\ droppedGetCount' = droppedGetCount + 1
            /\ pc' = [pc EXCEPT ![self] = "fail_unlock"]
            /\ UNCHANGED <<idleConn, busyConn, usage, currentWaitCount,
                           totalWaitCount, key, cur, held, last, startClosed,
                           fatal>>
       ELSE IF idleConn.size > 0
       THEN LET a == connsGetKey(idleConn) IN
            /\ IF a.panic # "none"
               THEN /\ Crash(self, a.panic)
                    /\ UNCHANGED key
               ELSE /\ key' = [key EXCEPT ![self] = a.key]
                    /\ pc' = [pc EXCEPT ![self] = "get_conn"]
                    /\ UNCHANGED fatal
            /\ UNCHANGED <<idleConn, busyConn, usage, droppedGetCount,
                           currentWaitCount, totalWaitCount, cur, held, last,
                           startClosed>>
       ELSE IF busyConn.size < opts.capacity
       THEN /\ pc' = [pc EXCEPT ![self] = "get_open"]
            /\ UNCHANGED <<idleConn, busyConn, usage, droppedGetCount,
                           currentWaitCount, totalWaitCount, key, cur, held,
                           last, startClosed, fatal>>
       ELSE /\ currentWaitCount' = currentWaitCount + 1
            /\ totalWaitCount' = totalWaitCount + 1
            /\ pc' = [pc EXCEPT ![self] = "wait_unlock"]
            /\ UNCHANGED <<idleConn, busyConn, usage, droppedGetCount,
                           key, cur, held, last, startClosed, fatal>>
    /\ UNCHANGED <<opts, pool, newErr, ctxDone, closed, ch, nconns, closeCalls,
                   gets>>

\* initConn on the open path: connector.Open returns; on an error Get
\* returns it with the mutex still locked
GetOpen(self) ==
    /\ Running
    /\ pc[self] = "get_open"
    /\ \E openOk \in BOOLEAN :
       IF openOk
       THEN /\ nconns' = nconns + 1
            /\ cur' = [cur EXCEPT ![self] = nconns + 1]
            /\ pc' = [pc EXCEPT ![self] = "get_send"]
            /\ UNCHANGED <<held, last, startClosed, fatal>>
       ELSE /\ Return(self, "ErrOpen", NoConn)
            /\ UNCHANGED nconns
    /\ UNCHANGED <<key, opts, pool, newErr, ctxDone, closed, mu, ch, idleConn,
                   busyConn, currentWaitCount, totalWaitCount, droppedGetCount,
                   usage, closeCalls, gets>>

\* the rest of initConn (the channel send, idleConn.put) and the first
\* statement of p.get()
GetSend(self) ==
    /\ Running
    /\ pc[self] = "get_send"
    /\ ch < opts.capacity
    /\ ch' = ch + 1
    /\ idleConn' = connsPut(idleConn, cur[self])
    /\ LET a == connsGetKey(idleConn') IN
       IF a.panic # "none"
       THEN /\ Crash(self, a.panic)
            /\ UNCHANGED key
       ELSE /\ key' = [key EXCEPT ![self] = a.key]
            /\ pc' = [pc EXCEPT ![self] = "get_conn"]
            /\ UNCHANGED fatal
    /\ UNCHANGED <<opts, pool, newErr, ctxDone, closed, mu, busyConn,
                   currentWaitCount, totalWaitCount, droppedGetCount, nconns,
                   usage, closeCalls, cur, held, last, startClosed, gets>>

\* conns.get in p.get(), on every path of Get: the key slice is resliced and
\* the Conn looked up under the key read before
GetConn(self) ==
    /\ Running
    /\ pc[self] \in {"get_conn", "wake_conn"}
    /\ LET b == connsGetConn(idleConn, key[self]) IN
       /\ idleConn' = b.cs
       /\ IF b.panic # "none"
          THEN /\ Crash(self, b.panic)
               /\ UNCHANGED cur
          ELSE /\ cur' = [cur EXCEPT ![self] = b.conn]
               /\ pc' = [pc EXCEPT ![self] = IF pc[self] = "get_conn"
                                             THEN "get_move" ELSE "wake_move"]
               /\ UNCHANGED fatal
    /\ UNCHANGED <<key, opts, pool, newErr, ctxDone, closed, mu, ch, busyConn,
                   currentWaitCount, totalWaitCount, droppedGetCount, nconns,
                   usage, closeCalls, held, last, startClosed, gets>>

\* the rest of p.get() on the idle and the open path: the end of conns.get,
\* then busyConn.put
GetMove(self) ==
    /\ Running
    /\ pc[self] = "get_move"
    /\ LET c == connsGetRest(idleConn, key[self], cur[self], usage) IN
       /\ idleConn' = c.cs
       /\ usage' = c.usage
       /\ IF c.panic # "none"
          THEN /\ Crash(self, c.panic)
               /\ UNCHANGED <<busyConn, key>>
          ELSE /\ busyConn' = connsPut(busyConn, cur[self])
               /\ key' = [key EXCEPT ![self] = EmptyKey]
               /\ pc' = [pc EXCEPT ![self] = "get_recv"]
               /\ UNCHANGED fatal
    /\ UNCHANGED <<opts, pool, newErr, ctxDone, closed, mu, ch,
                   currentWaitCount, totalWaitCount, droppedGetCount, nconns,
                   closeCalls, cur, held, last, startClosed, gets>>

\* the channel receive of the idle and open paths, made with the mutex
\* locked, then Unlock and the return of the connection
GetRecv(self) ==
    /\ Running
    /\ pc[self] = "get_recv"
    /\ ch > 0
    /\ ch' = ch - 1
    /\ UnlockReturn(self, "nil", cur[self])
    /\ UNCHANGED <<key, opts, pool, newErr, ctxDone, closed, idleConn, busyConn,
                   currentWaitCount, totalWaitCount, droppedGetCount, nconns,
                   usage, closeCalls, gets>>

\* wait path: Unlock, then the caller blocks in the select
GetWaitUnlock(self) ==
    /\ Running
    /\ pc[self] = "wait_unlock"
    /\ UnlockTo(self, "get_wait")
    /\ UNCHANGED <<key, opts, pool, newErr, ctxDone, closed, ch, idleConn,
                   busyConn, currentWaitCount, totalWaitCount, droppedGetCount,
                   nconns, usage, closeCalls, cur, held, last, startClosed,
                   gets>>

\* wait path, case <-p.ctx.Done(): Unlock of a mutex this goroutine has not
\* locked, then the return; the wait counter is left as it is
GetWaitCancel(self) ==
    /\ Running
    /\ pc[self] = "get_wait"
    /\ ctxDone
    /\ UnlockReturn(self, "ErrGetFromClosedPool", NoConn)
    /\ UNCHANGED <<key, opts, pool, newErr, ctxDone, closed, ch, idleConn, busyConn,
                   currentWaitCount, totalWaitCount, droppedGetCount, nconns,
                   usage, closeCalls, gets>>

\* wait path, case <-p.ch
GetWaitRecv(self) ==
    /\ Running
    /\ pc[self] = "get_wait"
    /\ ch > 0
    /\ ch' = ch - 1
    /\ pc' = [pc EXCEPT ![self] = "get_wake_lock"]
    /\ UNCHANGED <<key, opts, pool, newErr, ctxDone, closed, mu, idleConn, busyConn,
                   currentWaitCount, totalWaitCount, droppedGetCount, nconns,
                   usage, closeCalls, cur, held, last, startClosed,
                   gets, fatal>>

\* wait path after the channel receive: Lock and the first statement of
\* p.get()
GetWakeCS(self) ==
    /\ Running
    /\ pc[self] = "get_wake_lock"
    /\ mu = Free
    /\ mu' = self
    /\ LET a == connsGetKey(idleConn) IN
       IF a.panic # "none"
       THEN /\ Crash(self, a.panic)
            /\ UNCHANGED key
       ELSE /\ key' = [key EXCEPT ![self] = a.key]
            /\ pc' = [pc EXCEPT ![self] = "wake_conn"]
            /\ UNCHANGED fatal
    /\ UNCHANGED <<opts, pool, newErr, ctxDone, closed, ch, idleConn, busyConn,
                   currentWaitCount, totalWaitCount, droppedGetCount, nconns,
                   usage, closeCalls, cur, held, last, startClosed, gets>>

\* the rest of p.get() on the wait path, then the wait counter, Unlock and
\* the return of the connection
WakeMove(self) ==
    /\ Running
    /\ pc[self] = "wake_move"
    /\ LET c == connsGetRest(idleConn, key[self], cur[self], usage) IN
       /\ idleConn' = c.cs
       /\ usage' = c.usage
       /\ IF c.panic # "none"
          THEN /\ Crash(self, c.panic)
               /\ UNCHANGED <<busyConn, key, currentWaitCount, mu, last, held,
                              cur, startClosed>>
          ELSE /\ busyConn' = connsPut(busyConn, cur[self])
               /\ key' = [key EXCEPT ![self] = EmptyKey]
               /\ currentWaitCount' = currentWaitCount - 1
               /\ UnlockReturn(self, "nil", cur[self])
    /\ UNCHANGED <<opts, pool, newErr, ctxDone, closed, ch, totalWaitCount,
                   droppedGetCount, nconns, closeCalls, gets>>

\* wait path, case <-timer.C (MaxWaitDuration has elapsed): Lock and the
\* counters
GetTimeout(self) ==
    /\ Running
    /\ pc[self] = "get_wait"
    /\ mu = Free
    /\ mu' = self
    /\ droppedGetCount' = droppedGetCount + 1
    /\ currentWaitCount' = currentWaitCount - 1
    /\ pc' = [pc EXCEPT ![self] = "timeout_unlock"]
    /\ UNCHANGED <<key, opts, pool, newErr, ctxDone, closed, ch, idleConn,
                   busyConn, totalWaitCount, nconns, usage, closeCalls, cur,
                   held, last, startClosed, gets, fatal>>

\* wait path, case <-timer.C: Unlock and the return of
\* ErrExceedingMaxWaitingDuration
GetTimeoutReturn(self) ==
    /\ Running
    /\ pc[self] = "timeout_unlock"
    /\ UnlockReturn(self, "ErrExceedingMaxWaitingDuration", NoConn)
    /\ UNCHANGED <<key, opts, pool, newErr, ctxDone, closed, ch, idleConn,
                   busyConn, currentWaitCount, totalWaitCount, droppedGetCount,
                   nconns, usage, closeCalls, gets>>

\* ------------------------------------------------------------------- Put
\* a caller hands a connection c it got from Get to Put: Lock, deleteByKey
\* on the busy set, then either idleConn.put (the channel send follows) or
\* DB.Close (Unlock follows)
Put(self, c) ==
    /\ Running
    /\ pc[self] = "idle"
    /\ c \in held[self]
    /\ mu = Free
    /\ mu' = self
    /\ held' = [held EXCEPT ![self] = @ \ {c}]
    /\ LET r == putConn(idleConn, busyConn, c, opts.keepConn, closed) IN
       /\ idleConn' = r.idle
       /\ busyConn' = r.busy
       /\ IF r.panic # "none"
          THEN /\ Crash(self, r.panic)
               /\ UNCHANGED <<closeCalls, cur>>
          ELSE IF r.kept
          THEN /\ cur' = [cur EXCEPT ![self] = c]
               /\ pc' = [pc EXCEPT ![self] = "put_send"]
               /\ UNCHANGED <<closeCalls, fatal>>
          ELSE /\ closeCalls' = [closeCalls EXCEPT ![c] = @ + 1]
               /\ pc' = [pc EXCEPT ![self] = "put_unlock"]
               /\ UNCHANGED <<cur, fatal>>
    /\ UNCHANGED <<key, opts, pool, newErr, ctxDone, closed, ch, currentWaitCount,
                   totalWaitCount, droppedGetCount, nconns, usage, last,
                   startClosed, gets>>

\* the channel send of Put, made with the mutex locked, then Unlock
PutSend(self) ==
    /\ Running
    /\ pc[self] = "put_send"
    /\ ch < opts.capacity
    /\ ch' = ch + 1
    /\ cur' = [cur EXCEPT ![self] = NoConn]
    /\ UnlockTo(self, "idle")
    /\ UNCHANGED <<key, opts, pool, newErr, ctxDone, closed, idleConn, busyConn,
                   currentWaitCount, totalWaitCount, droppedGetCount, nconns,
                   usage, closeCalls, held, last, startClosed, gets>>

\* the Unlock of a Put that closed the handle
PutUnlock(self) ==
    /\ Running
    /\ pc[self] = "put_unlock"
    /\ UnlockTo(self, "idle")
    /\ UNCHANGED <<key, opts, pool, newErr, ctxDone, closed, ch, idleConn,
                   busyConn, currentWaitCount, totalWaitCount, droppedGetCount,
                   nconns, usage, closeCalls, cur, held, last, startClosed,
                   gets>>

\* ----------------------------------------------------------------- Close
\* Close, called by a caller or by the watcher goroutine: Lock, the closed
\* flag, idleConn.close()
Close(p) ==
    /\ Running
    /\ pc[p] = IF p = Watcher THEN "close_lock" ELSE "idle"
    /\ mu = Free
    /\ \A k \in idleConn.conns : closeCalls[k] < MaxCloseCalls
    /\ mu' = p
    /\ closed' = TRUE
    /\ closeCalls' = [k \in Keys |->
                        IF k \in idleConn.conns THEN closeCalls[k] + 1
                        ELSE closeCalls[k]]
    /\ idleConn' = connsClose(idleConn)
    /\ pc' = [pc EXCEPT ![p] = "close_unlock"]
    /\ UNCHANGED <<key, opts, pool, newErr, ctxDone, ch, busyConn,
                   currentWaitCount, totalWaitCount, droppedGetCount, nconns,
                   usage, cur, held, last, startClosed, gets, fatal>>

\* the Unlock of Close
CloseUnlock(p) ==
    /\ Running
    /\ pc[p] = "close_unlock"
    /\ UnlockTo(p, IF p = Watcher THEN "done" ELSE "idle")
    /\ UNCHANGED <<key, opts, pool, newErr, ctxDone, closed, ch, idleConn,
                   busyConn, currentWaitCount, totalWaitCount, droppedGetCount,
                   nconns, usage, closeCalls, cur, held, last, startClosed,
                   gets>>

\* ------------------------------------------------------------------ Next
Next ==
    \/ NewPool
    \/ CtxCancel
    \/ Watch
    \/ \E p \in Closers : Close(p)
    \/ \E p \in Closers : CloseUnlock(p)
    \/ \E self \in Callers : GetStart(self)
    \/ \E self \in Callers : GetCancel(self)
    \/ \E self \in Callers : GetFail(self)
    \/ \E self \in Callers : GetCS(self)
    \/ \E self \in Callers : GetOpen(self)
    \/ \E self \in Callers : GetSend(self)
    \/ \E self \in Callers : GetConn(self)
    \/ \E self \in Callers : GetMove(self)
    \/ \E self \in Callers : GetRecv(self)
    \/ \E self \in Callers : GetWaitUnlock(self)
    \/ \E self \in Callers : GetWaitCancel(self)
    \/ \E self \in Callers : GetWaitRecv(self)
    \/ \E self \in Callers : GetWakeCS(self)
    \/ \E self \in Callers : WakeMove(self)
    \/ \E self \in Callers : GetTimeout(self)
    \/ \E self \in Callers : GetTimeoutReturn(self)
    \/ \E self \in Callers : \E c \in Keys : Put(self, c)
    \/ \E self \in Callers : PutSend(self)
    \/ \E self \in Callers : PutUnlock(self)

Spec == Init /\ [][Next]_vars

\* the watcher goroutine started by NewPool is scheduled: its select runs,
\* and its Close returns once the mutex is free
FairSpec ==
    Spec /\ WF_vars(Watch) /\ WF_vars(Close(Watcher))
         /\ WF_vars(CloseUnlock(Watcher))

\* ================================================================ claims
\* all callers are between calls and the mutex is free
Quiet == Running /\ mu = Free /\ \A c \in Callers : pc[c] = "idle"

\* ---------------------------------------------------------------- C1
\* C1: for a pool constructed with Capacity = C, idle-set size plus busy-set
\* size is at most C in every reachable state.
C1_SizeWithinCapacity ==
    pool = "ready" => idleConn.size + busyConn.size <= opts.capacity

\* ---------------------------------------------------------------- C2
\* C2: between its Get and its Put of a connection exactly one caller holds
\* it: no two callers hold the same connection at the same time.
C2_OneHolder ==
    \A a, b \in Callers : a # b => held[a] \cap held[b] = {}

\* ---------------------------------------------------------------- C3
\* C3: once the cancellation signal has fired on a constructed pool, Close
\* eventually runs without a caller invoking it: the closed flag becomes
\* true and the handles of the idle connections are closed.
C3_CancelLeadsToClose ==
    (pool = "ready" /\ ctxDone) ~>
        (closed /\ \A k \in idleConn.conns : closeCalls[k] >= 1)

\* ---------------------------------------------------------------- C4
\* C4: a Get that starts when the cancellation signal has fired or the closed
\* flag is set returns ErrGetFromClosedPool and no connection, increments the
\* dropped counter by exactly one and leaves the idle set, the busy set, the
\* semaphore and the wait counters unchanged: its locked step does just
\* that, and the step after it is its return.
C4_ClosedGetFails ==
    [][\A c \in Callers :
          /\ (startClosed'[c] /\ pc[c] \in {"idle", "get_lock"}
              /\ pc'[c] \notin {"get_lock", pc[c]}) =>
                /\ pc'[c] = "fail_unlock"
                /\ droppedGetCount' = droppedGetCount + 1
                /\ UNCHANGED <<idleConn, busyConn, ch, currentWaitCount,
                               totalWaitCount, held>>
          /\ (startClosed[c] /\ pc[c] = "fail_unlock"
              /\ pc'[c] # "fail_unlock") =>
                /\ pc'[c] = "idle"
                /\ last' = "ErrGetFromClosedPool"
                /\ fatal' = "none"
                /\ UNCHANGED <<idleConn, busyConn, ch, currentWaitCount,
                               totalWaitCount, droppedGetCount, held>>]_vars

\* ---------------------------------------------------------------- C5
\* C5: the closed flag never goes back to false; the step that sets it
\* closes the handle of every connection of the idle set; and once the pool
\* is closed no handle that is closed is closed again (a repeated Close
\* closes nothing).
C5_CloseIsFinal ==
    [][/\ (closed => closed')
       /\ (~closed /\ closed' => \A k \in idleConn.conns : closeCalls'[k] = 1)
       /\ (closed => \A k \in Keys :
               closeCalls[k] >= 1 => closeCalls'[k] = closeCalls[k])]_vars

\* ---------------------------------------------------------------- C6
\* C6: a Get that is blocked on the wait path when the cancellation signal
\* fires fails with ErrGetFromClosedPool and no connection, and the pool stays
\* operable: the program goes on and the mutex is as it was.
C6_WaitCancelFailsCleanly ==
    [][\A c \in Callers :
          (/\ pc[c] = "get_wait" /\ ctxDone
           /\ pc'[c] \in {"crashed", "idle"})
          => /\ pc'[c] = "idle"
             /\ last' = "ErrGetFromClosedPool"
             /\ fatal' = "none"
             /\ mu' = mu
             /\ held' = held]_vars

\* ---------------------------------------------------------------- C7
\* C7: a Get enters the wait path only with an empty idle set and a full busy
\* set, incrementing the current-wait and total-wait counters by one; when
\* its timer fires it returns ErrExceedingMaxWaitingDuration and no
\* connection, the dropped counter is incremented by one, the current-wait
\* counter is decremented by one (back to its value before the call), and
\* the idle and busy sets are unchanged.
C7_WaitTimeout ==
    [][\A c \in Callers :
          /\ (pc[c] = "get_lock" /\ pc'[c] = "wait_unlock") =>
                /\ idleConn.size = 0
                /\ busyConn.size >= opts.capacity
                /\ currentWaitCount' = currentWaitCount + 1
                /\ totalWaitCount' = totalWaitCount + 1
                /\ UNCHANGED <<idleConn, busyConn, droppedGetCount, held>>
          /\ (pc[c] = "get_wait" /\ pc'[c] = "timeout_unlock") =>
                /\ droppedGetCount' = droppedGetCount + 1
                /\ currentWaitCount' = currentWaitCount - 1
                /\ currentWaitCount' >= 0
                /\ UNCHANGED <<idleConn, busyConn, totalWaitCount, held>>
          /\ (pc[c] = "timeout_unlock" /\ pc'[c] # "timeout_unlock") =>
                /\ pc'[c] = "idle"
                /\ last' = "ErrExceedingMaxWaitingDuration"
                /\ fatal' = "none"
                /\ UNCHANGED <<idleConn, busyConn, currentWaitCount,
                               totalWaitCount, droppedGetCount, held>>]_vars

\* ---------------------------------------------------------------- C8
\* the pool is open and idle, and a Put of a held connection would keep it
CanKeep == Quiet /\ ~closed /\ ~ctxDone /\ idleConn.size < opts.keepConn

\* the Put of connection c in the current state
afterPut(c) == putConn(idleConn, busyConn, c, opts.keepConn, closed)

\* the p.get() of the Get that follows the Put of connection c
nextGet(c) == poolGet(afterPut(c).idle, afterPut(c).busy, usage)

\* C8 as stated: after Put of a connection when the idle size is below
\* KeepConn and the pool is open, the next Get returns that same connection
\* without opening a new one and its UsageCounter equals 2, whatever the
\* idle set held before.
C8_NextGetReturnsSame ==
    \A a \in Callers : \A c \in held[a] :
        CanKeep =>
            /\ afterPut(c).kept
            /\ afterPut(c).idle.size > 0
            /\ nextGet(c).conn = c
            /\ nextGet(c).usage[c] = 2

\* C8 as amended: after such a Put the connection is at the tail of the idle
\* set, and the next Get takes the head of the idle set without opening a
\* connection and increments its UsageCounter by one; the head is the
\* connection just Put exactly when the idle set was empty before the Put,
\* and its UsageCounter is then 2 if it had been handed out once before.
C8_NextGetReturnsHead ==
    \A a \in Callers : \A c \in held[a] :
        CanKeep =>
            /\ afterPut(c).kept
            /\ afterPut(c).panic = "none"
            /\ afterPut(c).idle.size > 0
            /\ nextGet(c).panic = "none"
            /\ nextGet(c).conn = Head(afterPut(c).idle.keys)
            /\ nextGet(c).conn = c <=> idleConn.size = 0
            /\ nextGet(c).usage[nextGet(c).conn] = usage[nextGet(c).conn] + 1
            /\ (idleConn.size = 0 /\ usage[c] = 1 => nextGet(c).usage[c] = 2)

\* a caller holds, for the second time, a connection that a Put would keep,
\* while another connection is idle
C8_Witness ==
    /\ CanKeep
    /\ idleConn.size > 0
    /\ \E a \in Callers : \E c \in held[a] : usage[c] = 2

\* ---------------------------------------------------------------- C9
\* the pool is open and idle and one more connection may be opened
CanGet == Quiet /\ ~closed /\ ~ctxDone /\ nconns + 1 \in Keys

\* the p.get() of a Get served from the idle set, and the Put that follows
idleTrip == poolGet(idleConn, busyConn, usage)
idleTripPut ==
    putConn(idleTrip.idle, idleTrip.busy, idleTrip.conn, opts.keepConn, closed)

\* the p.get() of a Get that opens connection nconns + 1, and the Put that
\* follows
openTrip == openGet(idleConn, busyConn, usage, nconns + 1)
openTripPut ==
    putConn(openTrip.idle, openTrip.busy, openTrip.conn, opts.keepConn, closed)

\* C9 as stated: a Get followed at once by the Put of its connection, the
\* connection being kept, restores the idle-set size and the busy-set size
\* and adds one to the connection's UsageCounter, whether the Get was served
\* from the idle set or opened a connection.
C9_RoundTripRestores ==
    CanGet =>
        /\ (idleConn.size > 0 /\ idleTripPut.kept) =>
              /\ idleTripPut.idle.size = idleConn.size
              /\ idleTripPut.busy.size = busyConn.size
              /\ idleTrip.usage[idleTrip.conn] = usage[idleTrip.conn] + 1
        /\ (idleConn.size = 0 /\ busyConn.size < opts.capacity
            /\ openTripPut.kept) =>
              /\ openTripPut.idle.size = idleConn.size
              /\ openTripPut.busy.size = busyConn.size
              /\ openTrip.usage[openTrip.conn] = usage[openTrip.conn] + 1

\* C9 as amended: such a round trip restores the busy-set size and adds one
\* to the connection's UsageCounter; it restores the idle-set size when the
\* Get was served from the idle set, and leaves the idle set one larger when
\* the Get opened the connection, which the Put keeps.
C9_RoundTripKeepsOpened ==
    CanGet =>
        /\ (idleConn.size > 0 /\ idleTripPut.kept) =>
              /\ idleTripPut.idle.size = idleConn.size
              /\ idleTripPut.busy.size = busyConn.size
              /\ idleTrip.usage[idleTrip.conn] = usage[idleTrip.conn] + 1
        /\ (idleConn.size = 0 /\ busyConn.size < opts.capacity
            /\ openTripPut.kept) =>
              /\ openTrip.conn = nconns + 1
              /\ openTripPut.idle.size = idleConn.size + 1
              /\ openTripPut.busy.size = busyConn.size
              /\ openTrip.usage[openTrip.conn] = usage[openTrip.conn] + 1

\* a connection opened by a Get has been Put and is kept in the idle set,
\* which was empty before
C9_Witness ==
    /\ Quiet /\ ~closed
    /\ busyConn.size = 0
    /\ \E k \in idleConn.conns :
          k > opts.keepConn /\ usage[k] = 1 /\ idleConn.keys = <<k>>

\* --------------------------------------------------------------- C10
\* C10: NewPool returns the error of the first failing check, in the order
\* Type, Args, Capacity, KeepConn; a validation error is returned before a
\* connection is opened, and no pool is returned with an error.
C10_ValidationOrder ==
    pool # "new" =>
        /\ ~opts.typeKnown => newErr = "ErrSQLType"
        /\ (opts.typeKnown /\ ~opts.argsPresent) => newErr = "ErrEmptyArgs"
        /\ (opts.typeKnown /\ opts.argsPresent /\ opts.capacity = 0) =>
              newErr = "ErrCapacity"
        /\ (/\ opts.typeKnown /\ opts.argsPresent /\ opts.capacity > 0
            /\ opts.keepConn > opts.capacity) => newErr = "ErrKeepLTCapacity"
        /\ (/\ opts.typeKnown /\ opts.argsPresent /\ opts.capacity > 0
            /\ opts.keepConn <= opts.capacity) => newErr \in {"nil", "ErrOpen"}
        /\ newErr # "nil" => (pool = "failed" /\ nconns = 0)

\* Args is absent and Capacity is 0 and KeepConn exceeds it: the Args check
\* comes first
C10_Witness ==
    /\ pool = "failed"
    /\ opts.typeKnown /\ ~opts.argsPresent
    /\ opts.capacity = 0 /\ opts.keepConn > opts.capacity
    /\ newErr = "ErrEmptyArgs"

\* --------------------------------------------------------------- C11
\* C11: Put of a busy connection removes it from the busy set; if the idle
\* size is below KeepConn and the pool is not closed the connection is
\* appended to the idle set with its handle still open and exactly one
\* semaphore unit is returned, otherwise its handle is closed, it is in
\* neither set and the semaphore is unchanged.  Put does not fail (no panic,
\* no fatal error) and its channel send does not block.
C11_PutKeepsOrCloses ==
    [][\A self \in Callers :
          /\ (pc[self] = "idle" /\ held'[self] # held[self]
              /\ held'[self] \subseteq held[self]) =>
                LET c == CHOOSE k \in held[self] : k \notin held'[self] IN
                /\ fatal' = "none"
                /\ c \notin busyConn'.conns
                /\ \A i \in 1..Len(busyConn'.keys) : busyConn'.keys[i] # c
                /\ IF idleConn.size < opts.keepConn /\ ~closed
                   THEN /\ pc'[self] = "put_send"
                        /\ idleConn'.keys = Append(idleConn.keys, c)
                        /\ idleConn'.conns = idleConn.conns \cup {c}
                        /\ closeCalls'[c] = 0
                        /\ ch < opts.capacity
                   ELSE /\ pc'[self] = "put_unlock"
                        /\ closeCalls'[c] = 1
                        /\ c \notin idleConn'.conns
                        /\ ch' = ch
          /\ (pc[self] = "put_send" /\ pc'[self] # "put_send") =>
                /\ pc'[self] = "idle" /\ fatal' = "none"
                /\ ch' = ch + 1
                /\ UNCHANGED <<idleConn, busyConn, closeCalls>>
          /\ (pc[self] = "put_unlock" /\ pc'[self] # "put_unlock") =>
                /\ pc'[self] = "idle" /\ fatal' = "none"
                /\ UNCHANGED <<idleConn, busyConn, closeCalls, ch>>]_vars

\* --------------------------------------------------------------- C12
\* C12: once Close has run and every connection that was busy has been Put,
\* the handle of every connection the pool ever opened is closed and the idle
\* set retains no connection.
C12_AllClosedAfterClose ==
    (Quiet /\ closed /\ busyConn.conns = {} /\ \A c \in Callers : held[c] = {})
        => /\ \A k \in 1..nconns : closeCalls[k] >= 1
           /\ idleConn.conns = {}

\* --------------------------------------------------------------- C13
\* the positions of a goroutine inside a section of code that the mutex
\* guards
InSection ==
    {"fail_unlock", "get_conn", "get_open", "get_send", "get_move", "get_recv",
     "wait_unlock", "wake_conn", "wake_move", "timeout_unlock", "put_send",
     "put_unlock", "close_unlock"}

\* C13: at most one goroutine is inside a section guarded by the mutex; a
\* step that changes the idle set, the busy set, a counter or the closed flag
\* is made by the goroutine that holds the mutex; and the mutex is released
\* only by the goroutine that locked it.
C13_SingleLock ==
    [][/\ Cardinality({p \in Procs : pc[p] \in InSection}) <= 1
       /\ \A p \in Procs : (pool = "ready" /\ pc'[p] # pc[p]) =>
             /\ (<<idleConn, busyConn, currentWaitCount, totalWaitCount,
                   droppedGetCount, closed>>' #
                 <<idleConn, busyConn, currentWaitCount, totalWaitCount,
                   droppedGetCount, closed>>) => (mu = p \/ mu' = p)
             /\ (mu # Free /\ mu' = Free) => mu = p]_vars

\* --------------------------------------------------------------- C14
\* C14: while the pool is open and the cancellation signal has not fired, a
\* Get that found the idle set non-empty (or opened a connection) and has
\* taken its connection does not block on the semaphore: a caller that holds
\* the mutex and is at its channel receive finds a unit in the channel.
C14_NoBlockedReceiveUnderLock ==
    \A c \in Callers :
        (Running /\ ~closed /\ ~ctxDone /\ pc[c] = "get_recv") => ch > 0

\* --------------------------------------------------------------- C15
\* the size field of a connection set equals the length of its key slice
\* and the number of entries of its map, and every key of the slice has a
\* map entry
connsConsistent(cs) ==
    /\ cs.size = Len(cs.keys)
    /\ cs.size = Cardinality(cs.conns)
    /\ \A i \in 1..Len(cs.keys) : cs.keys[i] \in cs.conns

\* C15: whenever no goroutine is inside an operation of the pool, both
\* connection sets are consistent.
C15_SetsConsistent ==
    Quiet => connsConsistent(idleConn) /\ connsConsistent(busyConn)

\* --------------------------------------------------------------- C16
\* C16: conns.get runs only on an idle set that is not empty and whose head
\* key maps to a connection with an open handle; in particular this holds
\* when a Get woken by the channel has locked the mutex again.
C16_TakeFindsLiveHead ==
    [][\A c \in Callers :
          (pc[c] \in {"get_lock", "get_wake_lock"} /\ pc'[c] # pc[c]
           /\ pc'[c] \in {"get_conn", "wake_conn", "crashed"}) =>
             /\ Len(idleConn.keys) > 0
             /\ Head(idleConn.keys) \in idleConn.conns
             /\ closeCalls[Head(idleConn.keys)] = 0
             /\ fatal' = "none"]_vars

\* --------------------------------------------------------------- C17
\* Pool.Status: the sizes of the snapshot
Status ==
    [IdleSize |-> idleConn.size,
     BusySize |-> busyConn.size,
     Size |-> busyConn.size + idleConn.size,
     Closed |-> closed]

\* C17: the step of Close leaves the idle set with size 0, no keys and an
\* empty map, so that Status reports idle size 0 and a total size equal to
\* the busy size.
C17_CloseEmptiesIdle ==
    [][\A p \in Closers :
          (pc[p] # "close_unlock" /\ pc'[p] = "close_unlock") =>
             /\ idleConn'.size = 0
             /\ idleConn'.keys = <<>>
             /\ idleConn'.conns = {}
             /\ Status'.IdleSize = 0
             /\ Status'.Size = Status'.BusySize]_vars

\* --------------------------------------------------------------- C18
\* C18: when connector.Open fails on the open path, Get returns the error
\* and no connection, the idle set, the busy set and the channel are
\* unchanged, and the mutex is free afterwards.
C18_OpenFailureUnlocks ==
    [][\A c \in Callers :
          (pc[c] = "get_open" /\ pc'[c] = "idle") =>
             /\ last' = "ErrOpen"
             /\ held' = held
             /\ UNCHANGED <<idleConn, busyConn, ch>>
             /\ mu' = Free]_vars

\* --------------------------------------------------------------- C19
\* C19: when a Put on an open pool returns while a Get is blocked on the
\* wait path, a unit is in the channel for the blocked Get to receive,
\* whether the connection was kept or discarded.
C19_PutWakesWaiter ==
    [][\A self \in Callers :
          (/\ pc[self] \in {"put_send", "put_unlock"} /\ pc'[self] = "idle"
           /\ ~closed /\ ~ctxDone
           /\ \E w \in Callers : pc[w] = "get_wait")
          => ch' > 0]_vars

\* --------------------------------------------------------------- C20
\* the positions of a Get that has entered the wait path and has neither
\* decremented the wait counter nor returned
Waiting ==
    {"wait_unlock", "get_wait", "get_wake_lock", "wake_conn", "wake_move"}

\* C20: the current-wait counter equals the number of Get calls on the wait
\* path that have not returned; it is zero when no Get is in progress and
\* never below zero.
C20_WaitCountMatches ==
    Running =>
        /\ currentWaitCount = Cardinality({c \in Callers : pc[c] \in Waiting})
        /\ currentWaitCount >= 0

====
